---- MODULE Spec2Model ----
(***************************************************************************)
(* Lineage resolver and cascading royalty engine of the SolanaService      *)
(* (services/solanaService.ts).                                            *)
(*                                                                         *)
(*  - calculateLineageRoyaltyDistribution: the royalty loop, one action    *)
(*    per loop iteration (SpecRoyalty); with the legacy                    *)
(*    calculateRoyaltyDistribution beside it (SpecDistributions).          *)
(*  - traceLineage: the parent-pointer walk over a ledger snapshot, one    *)
(*    action per loop iteration (SpecTrace); called twice on the same      *)
(*    snapshot (SpecTraceTwice).                                           *)
(*  - createModelRegistrationTransaction, createSubscriptionTransaction,  *)
(*    distributeFromTreasury: transaction assembly (SpecAssemble).         *)
(*  - encodeBorshString, encodeBorshOptionPubkey, decodeModelAccountData   *)
(*    on bytes (SpecCodec).                                                *)
(*  - POST /process-signature-royalty (SpecRoute); posted again with the   *)
(*    same transactionSignature (SpecRouteRetry).                          *)
(*  - getAccountInfo: the retry loop around the RPC call (SpecFetch).      *)
(*                                                                         *)
(* TypeScript arrays are 0-based, TLA+ sequences 1-based: lineage[k] of    *)
(* the source is lineage[k+1] here.                                        *)
(***************************************************************************)
EXTENDS Integers, Sequences, FiniteSets, TLC

VARIABLES
    \* ---- calculateLineageRoyaltyDistribution ----
    totalLamports,        \* argument
    lineageTrace,         \* argument (a LineageTrace)
    platformFeeBps,       \* argument
    minRoyaltyLamports,   \* argument
    platformAmount,       \* const platformAmount
    remainingAmount,      \* let remainingAmount
    lineageRoyalties,     \* const lineageRoyalties (array being filled)
    totalLineageAmount,   \* let totalLineageAmount
    i,                    \* loop variable, 1-based (source i + 1)
    pcRoyalty,            \* "loop" | "done"
    distribution,         \* the returned RoyaltyDistribution
    \* ---- traceLineage ----
    ledger,               \* the on-chain accounts (fixed snapshot)
    modelPDA,             \* argument
    maxDepth,             \* argument
    currentPDA,           \* let currentPDA
    depth,                \* let depth
    lineage,              \* const lineage (array being filled)
    violations,           \* const violations (array being filled)
    pcTrace,              \* "loop" | "done"
    trace,                \* the returned LineageTrace
    fetchCalls,           \* getAccountInfo calls made by the running walk
    prevTrace,            \* what the previous call with these arguments returned
    \* ---- createSubscriptionTransaction / distributeFromTreasury /
    \*      createModelRegistrationTransaction ----
    asmKind,              \* which of the three builders runs
    platformWallet,       \* platformFeeWallet || PLATFORM_FEE_WALLET, or none
    parentModelPubkey,    \* modelData.parentModelPubkey, or none
    transaction,          \* the Transaction being built
    pcAsm,                \* "start" | "calc" | "done"
    \* ---- encodeBorshString / encodeBorshOptionPubkey /
    \*      decodeModelAccountData ----
    codecInput,           \* the field values to be stored
    accountData,          \* the Buffer handed to the decoder
    bufKind,              \* "account" | "prefix" | "payload"
    decodeResult,         \* the returned LineageInfo, or null
    pcCodec,              \* "input" | "ready" | "done"
    \* ---- POST /process-signature-royalty ----
    request,              \* the request and what the ledger answers to it
    response,             \* the HTTP status sent
    treasurySends,        \* transactions sent from the treasury
    requestsSeen,         \* requests received with this transactionSignature
    pcRoute,              \* position in the handler
    \* ---- getAccountInfo ----
    maxRetries,           \* the maxRetries argument
    rpcOutcomes,          \* what connection.getAccountInfo does, call by call
    attempt,              \* let attempt
    rpcCalls,             \* connection.getAccountInfo calls made
    waitLog,              \* the attempts after which the delay was awaited
    fetchResult,          \* what the call returned or threw
    pcFetch               \* "loop" | "done"

royaltyVars == <<totalLamports, lineageTrace, platformFeeBps, minRoyaltyLamports,
                 platformAmount, remainingAmount, lineageRoyalties,
                 totalLineageAmount, i, pcRoyalty, distribution>>
traceVars == <<ledger, modelPDA, maxDepth, currentPDA, depth, lineage,
               violations, pcTrace, trace, fetchCalls, prevTrace>>
asmVars == <<asmKind, platformWallet, parentModelPubkey, transaction, pcAsm>>
codecVars == <<codecInput, accountData, bufKind, decodeResult, pcCodec>>
routeVars == <<request, response, treasurySends, requestsSeen, pcRoute>>
fetchVars == <<maxRetries, rpcOutcomes, attempt, rpcCalls, waitLog, fetchResult,
               pcFetch>>
extVars == <<asmVars, codecVars, routeVars, fetchVars>>
vars == <<royaltyVars, traceVars, extVars>>

(***************************************************************************)
(* Bounds of the model.                                                    *)
(***************************************************************************)
NumAddr == 3
MaxLineageLen == 3
MaxMaxDepth == 4
MaxSmallTotal == 2

Addr == 1..NumAddr
NoParent == 0
NoValue == [none |-> TRUE]

(***************************************************************************)
(* Math.floor(a * b / c) for non-negative integers.  The product is split  *)
(* as (a div c) * b + ((a mod c) * b) div c, which is the same number and  *)
(* keeps every intermediate value inside the checker's integer range.      *)
(***************************************************************************)
FloorMulDiv(a, b, c) == (a \div c) * b + ((a % c) * b) \div c

BpsDenominator == 10000
LineageRoyaltyBps == 250

PlatformAmountOfDoubled(total, feeBps) == FloorMulDiv(total, feeBps, 5000)

PlatformAmountOf(total, feeBps) == FloorMulDiv(total, feeBps, BpsDenominator)

RoyaltyAmountTenthOfRate(total) == FloorMulDiv(total, 25, BpsDenominator)

RoyaltyAmountOf(total) == FloorMulDiv(total, LineageRoyaltyBps, BpsDenominator)

\* remainingAmount -= royaltyAmount
RemainingAfterUnchanged(remaining, royaltyAmount) == remaining

RemainingAfter(remaining, royaltyAmount) == remaining - royaltyAmount

\* lineageTrace.lineage[i] of the loop body (k is the 1-based loop index)
VisitedEntryLeafFirst(lin, k) == lin[Len(lin) - k + 1]

VisitedEntry(lin, k) == lin[k]

\* the object pushed onto lineageRoyalties
RoyaltyEntry(lineageInfo, royaltyAmount) ==
    [modelPDA |-> lineageInfo.modelPDA,
     developerWallet |-> lineageInfo.developerWallet,
     depth |-> lineageInfo.depth,
     amount |-> royaltyAmount]

\* the returned object
MakeDistribution(total, platform, remaining, royalties, totalLineage) ==
    [totalLamports |-> total,
     platformAmount |-> platform,
     developerAmount |-> remaining,
     lineageRoyalties |-> royalties,
     totalLineageAmount |-> totalLineage,
     remainingAmount |-> remaining]

(***************************************************************************)
(* Inputs of calculateLineageRoyaltyDistribution.                          *)
(***************************************************************************)
Totals == (0..MaxSmallTotal) \cup {39, 40, 1000, 39999, 40000, 1000000000}
FeeBpsValues == {0, 500, 9600, 9750, 10000}
MinRoyaltyValues == {0, 1, 1000}

WalletOf(a) == a

RECURSIVE SeqsOver(_, _)
SeqsOver(S, n) ==
    IF n = 0 THEN {<<>>}
    ELSE LET shorter == SeqsOver(S, n - 1)
         IN  shorter \cup {Append(s, x) : s \in {t \in shorter : Len(t) = n - 1}, x \in S}

\* a lineage as traceLineage builds it: entry k was reached after k - 1 links
InputLineage(addrs) ==
    [k \in 1..Len(addrs) |->
        [modelPDA |-> addrs[k],
         developerWallet |-> WalletOf(addrs[k]),
         depth |-> k - 1,
         parentPDA |-> IF k < Len(addrs) THEN addrs[k + 1] ELSE NoParent]]

InputLineages == {InputLineage(addrs) : addrs \in SeqsOver(Addr, MaxLineageLen)}

AsmIdle ==
    /\ asmKind = "none"
    /\ platformWallet = NoParent
    /\ parentModelPubkey = NoParent
    /\ transaction = NoValue
    /\ pcAsm = "idle"

CodecIdle ==
    /\ codecInput = NoValue
    /\ accountData = <<>>
    /\ bufKind = "none"
    /\ decodeResult = NoValue
    /\ pcCodec = "idle"

RouteIdle ==
    /\ request = NoValue
    /\ response = NoValue
    /\ treasurySends = 0
    /\ requestsSeen = 0
    /\ pcRoute = "idle"

FetchIdle ==
    /\ maxRetries = 0
    /\ rpcOutcomes = <<>>
    /\ attempt = 0
    /\ rpcCalls = 0
    /\ waitLog = <<>>
    /\ fetchResult = NoValue
    /\ pcFetch = "idle"

ExtIdle == AsmIdle /\ CodecIdle /\ RouteIdle /\ FetchIdle

TraceIdle ==
    /\ ledger = NoValue
    /\ modelPDA = NoParent
    /\ maxDepth = 0
    /\ currentPDA = NoParent
    /\ depth = 0
    /\ lineage = <<>>
    /\ violations = <<>>
    /\ pcTrace = "idle"
    /\ trace = NoValue
    /\ fetchCalls = 0
    /\ prevTrace = NoValue

InitRoyalty ==
    /\ totalLamports \in Totals
    /\ platformFeeBps \in FeeBpsValues
    /\ minRoyaltyLamports \in MinRoyaltyValues
    /\ lineageTrace \in {[lineage |-> lin] : lin \in InputLineages}
    /\ platformAmount = 0
    /\ remainingAmount = 0
    /\ lineageRoyalties = <<>>
    /\ totalLineageAmount = 0
    /\ i = 0
    /\ pcRoyalty = "start"
    /\ distribution = NoValue
    /\ TraceIdle
    /\ ExtIdle

(***************************************************************************)
(* calculateLineageRoyaltyDistribution                                     *)
(***************************************************************************)
\* lines before the loop, and the loop initialisation
RoyaltyBegin ==
    /\ pcRoyalty = "start"
    /\ platformAmount' = PlatformAmountOf(totalLamports, platformFeeBps)
    /\ remainingAmount' = totalLamports - platformAmount'
    /\ lineageRoyalties' = <<>>
    /\ totalLineageAmount' = 0
    /\ i' = Len(lineageTrace.lineage)
    /\ pcRoyalty' = "loop"
    /\ UNCHANGED <<totalLamports, lineageTrace, platformFeeBps,
                   minRoyaltyLamports, distribution>>
    /\ UNCHANGED traceVars
    /\ UNCHANGED extVars

RoyaltyReturn ==
    /\ distribution' = MakeDistribution(totalLamports, platformAmount,
                                        remainingAmount, lineageRoyalties,
                                        totalLineageAmount)
    /\ pcRoyalty' = "done"
    /\ UNCHANGED <<totalLamports, lineageTrace, platformFeeBps,
                   minRoyaltyLamports, platformAmount, remainingAmount,
                   lineageRoyalties, totalLineageAmount, i>>
    /\ UNCHANGED traceVars
    /\ UNCHANGED extVars

\* if (royaltyAmount < minRoyaltyLamports) break;
LoopStopBelowMin ==
    /\ pcRoyalty = "loop"
    /\ i >= 1
    /\ RoyaltyAmountOf(totalLamports) < minRoyaltyLamports
    /\ RoyaltyReturn

\* if (royaltyAmount > remainingAmount) break;
LoopStopInsufficient ==
    /\ pcRoyalty = "loop"
    /\ i >= 1
    /\ ~(RoyaltyAmountOf(totalLamports) < minRoyaltyLamports)
    /\ RoyaltyAmountOf(totalLamports) > remainingAmount
    /\ RoyaltyReturn

\* push, totalLineageAmount += royaltyAmount, remainingAmount -= royaltyAmount, i--
LoopAccept ==
    /\ pcRoyalty = "loop"
    /\ i >= 1
    /\ ~(RoyaltyAmountOf(totalLamports) < minRoyaltyLamports)
    /\ ~(RoyaltyAmountOf(totalLamports) > remainingAmount)
    /\ LET royaltyAmount == RoyaltyAmountOf(totalLamports)
           lineageInfo == VisitedEntry(lineageTrace.lineage, i)
       IN  /\ lineageRoyalties' = Append(lineageRoyalties,
                                         RoyaltyEntry(lineageInfo, royaltyAmount))
           /\ totalLineageAmount' = totalLineageAmount + royaltyAmount
           /\ remainingAmount' = RemainingAfter(remainingAmount, royaltyAmount)
    /\ i' = i - 1
    /\ UNCHANGED <<totalLamports, lineageTrace, platformFeeBps,
                   minRoyaltyLamports, platformAmount, pcRoyalty, distribution>>
    /\ UNCHANGED traceVars
    /\ UNCHANGED extVars

\* the loop condition i >= 0 fails
LoopExhausted ==
    /\ pcRoyalty = "loop"
    /\ i < 1
    /\ RoyaltyReturn

NextRoyalty ==
    \/ RoyaltyBegin
    \/ LoopStopBelowMin
    \/ LoopStopInsufficient
    \/ LoopAccept
    \/ LoopExhausted

SpecRoyalty == InitRoyalty /\ [][NextRoyalty]_vars

(***************************************************************************)
(* calculateRoyaltyDistribution, the legacy calculation kept for           *)
(* compatibility (SpecDistributions: either calculation is called).        *)
(***************************************************************************)
\* the object the legacy calculation returns; feeBps is PLATFORM_FEE_BPS
LegacyDistribution(total, feeBps) ==
    LET platform == PlatformAmountOf(total, feeBps)
        royaltyAmount == FloorMulDiv(total, LineageRoyaltyBps, BpsDenominator)
        developer == total - platform - royaltyAmount
    IN  [totalLamports |-> total,
         platformAmount |-> platform,
         developerAmount |-> developer,
         lineageRoyalties |-> <<>>,
         totalLineageAmount |-> royaltyAmount,
         remainingAmount |-> developer]

\* calculateRoyaltyDistribution(totalLamports), whole body
CalculateRoyaltyDistribution ==
    /\ pcRoyalty = "start"
    /\ distribution' = LegacyDistribution(totalLamports, platformFeeBps)
    /\ pcRoyalty' = "done"
    /\ UNCHANGED <<totalLamports, lineageTrace, platformFeeBps,
                   minRoyaltyLamports, platformAmount, remainingAmount,
                   lineageRoyalties, totalLineageAmount, i>>
    /\ UNCHANGED traceVars
    /\ UNCHANGED extVars

NextDistributions ==
    \/ RoyaltyBegin
    \/ LoopStopBelowMin
    \/ LoopStopInsufficient
    \/ LoopAccept
    \/ LoopExhausted
    \/ CalculateRoyaltyDistribution

SpecDistributions == InitRoyalty /\ [][NextDistributions]_vars

(***************************************************************************)
(* The ledger read by traceLineage: for every address either no account,   *)
(* an account whose bytes do not decode, or a model account with an        *)
(* optional parent address.  The snapshot is fixed during one call.        *)
(***************************************************************************)
AccountShapes ==
    {[exists |-> FALSE, decodes |-> FALSE, parent |-> NoParent],
     [exists |-> TRUE, decodes |-> FALSE, parent |-> NoParent]}
    \cup {[exists |-> TRUE, decodes |-> TRUE, parent |-> p] :
              p \in Addr \cup {NoParent}}

Ledgers == [Addr -> AccountShapes]

\* violation kinds (the source appends the address or the depth to the text)
NotFound == "Model account not found"
DecodeFailed == "Failed to decode model account"
MaxDepthExceeded == "Maximum lineage depth exceeded"
CircularReference == "Circular reference detected in lineage"
TracingFailed == "Lineage tracing failed"

\* new PublicKey('11111111111111111111111111111111')
DummyPDA == NumAddr + 1

\* decodeModelAccountData: null (NoValue) when the bytes do not decode
decodeModelAccountData(pda, account) ==
    IF account.decodes
    THEN [modelPDA |-> DummyPDA,
          developerWallet |-> WalletOf(pda),
          depth |-> 0,
          parentPDA |-> account.parent]
    ELSE NoValue

\* lineageInfo.modelPDA = currentPDA
SetModelPDAForgotten(lineageInfo, pda) == lineageInfo

SetModelPDA(lineageInfo, pda) == [lineageInfo EXCEPT !.modelPDA = pda]

\* while (currentPDA && depth < maxDepth)
LoopGuardWithoutCap(pda, d, cap) == pda # NoParent

LoopGuardOneShort(pda, d, cap) == pda # NoParent /\ d < cap - 1

LoopGuardInclusive(pda, d, cap) == pda # NoParent /\ d <= cap

LoopGuard(pda, d, cap) == pda # NoParent /\ d < cap

\* if (depth >= maxDepth)
DepthExceededNever(d, cap) == FALSE

DepthExceededStrict(d, cap) == d > cap

DepthExceeded(d, cap) == d >= cap

\* pdaSet.size !== lineage.length
HasDuplicatePDANever(lin) == FALSE

HasDuplicatePDA(lin) ==
    Cardinality({lin[k].modelPDA : k \in 1..Len(lin)}) # Len(lin)

\* the statements after the loop and the normal return
NormalReturnValidEarly(lin, d, cap, viol) ==
    LET v1 == IF DepthExceeded(d, cap) THEN Append(viol, MaxDepthExceeded) ELSE viol
        v2 == IF HasDuplicatePDA(lin) THEN Append(v1, CircularReference) ELSE v1
    IN  [lineage |-> lin,
         totalDepth |-> d,
         isValid |-> Len(viol) = 0,
         violations |-> v2]

NormalReturnDepthAsLength(lin, d, cap, viol) ==
    LET v1 == IF DepthExceeded(d, cap) THEN Append(viol, MaxDepthExceeded) ELSE viol
        v2 == IF HasDuplicatePDA(lin) THEN Append(v1, CircularReference) ELSE v1
    IN  [lineage |-> lin,
         totalDepth |-> Len(lin),
         isValid |-> Len(v2) = 0,
         violations |-> v2]

NormalReturn(lin, d, cap, viol) ==
    LET v1 == IF DepthExceeded(d, cap) THEN Append(viol, MaxDepthExceeded) ELSE viol
        v2 == IF HasDuplicatePDA(lin) THEN Append(v1, CircularReference) ELSE v1
    IN  [lineage |-> lin,
         totalDepth |-> d,
         isValid |-> Len(v2) = 0,
         violations |-> v2]

\* the return of the catch block
CatchReturnEmptyLineage(lin, d) ==
    [lineage |-> <<>>,
     totalDepth |-> d,
     isValid |-> FALSE,
     violations |-> <<TracingFailed>>]

CatchReturn(lin, d) ==
    [lineage |-> lin,
     totalDepth |-> d,
     isValid |-> FALSE,
     violations |-> <<TracingFailed>>]

RoyaltyIdle ==
    /\ totalLamports = 0
    /\ lineageTrace = NoValue
    /\ platformFeeBps = 0
    /\ minRoyaltyLamports = 0
    /\ platformAmount = 0
    /\ remainingAmount = 0
    /\ lineageRoyalties = <<>>
    /\ totalLineageAmount = 0
    /\ i = 0
    /\ pcRoyalty = "idle"
    /\ distribution = NoValue

InitTrace ==
    /\ ledger \in Ledgers
    /\ modelPDA \in Addr
    /\ maxDepth \in 1..MaxMaxDepth
    /\ currentPDA = NoParent
    /\ depth = 0
    /\ lineage = <<>>
    /\ violations = <<>>
    /\ pcTrace = "start"
    /\ trace = NoValue
    /\ fetchCalls = 0
    /\ prevTrace = NoValue
    /\ RoyaltyIdle
    /\ ExtIdle

(***************************************************************************)
(* traceLineage                                                            *)
(***************************************************************************)
\* const lineage: LineageInfo[] = []; const violations: string[] = [];
\* (a new array in every call, whatever an earlier call collected)
NewArrayKeepsOld(previous) == previous

NewArray(previous) == <<>>

TraceBegin ==
    /\ pcTrace = "start"
    /\ lineage' = NewArray(lineage)
    /\ violations' = NewArray(violations)
    /\ currentPDA' = modelPDA
    /\ depth' = 0
    /\ pcTrace' = "loop"
    /\ UNCHANGED <<ledger, modelPDA, maxDepth, trace>>
    /\ fetchCalls' = 0
    /\ UNCHANGED prevTrace
    /\ UNCHANGED royaltyVars
    /\ UNCHANGED extVars

\* getAccountInfo returns no account: push the violation, break
TraceAccountNotFound ==
    /\ pcTrace = "loop"
    /\ LoopGuard(currentPDA, depth, maxDepth)
    /\ ~ledger[currentPDA].exists
    /\ violations' = Append(violations, NotFound)
    /\ trace' = NormalReturn(lineage, depth, maxDepth, violations')
    /\ pcTrace' = "done"
    /\ UNCHANGED <<ledger, modelPDA, maxDepth, currentPDA, depth, lineage>>
    /\ fetchCalls' = fetchCalls + 1
    /\ UNCHANGED prevTrace
    /\ UNCHANGED royaltyVars
    /\ UNCHANGED extVars

\* decodeModelAccountData returns null: push the violation, break
TraceDecodeFailed ==
    /\ pcTrace = "loop"
    /\ LoopGuard(currentPDA, depth, maxDepth)
    /\ ledger[currentPDA].exists
    /\ decodeModelAccountData(currentPDA, ledger[currentPDA]) = NoValue
    /\ violations' = Append(violations, DecodeFailed)
    /\ trace' = NormalReturn(lineage, depth, maxDepth, violations')
    /\ pcTrace' = "done"
    /\ UNCHANGED <<ledger, modelPDA, maxDepth, currentPDA, depth, lineage>>
    /\ fetchCalls' = fetchCalls + 1
    /\ UNCHANGED prevTrace
    /\ UNCHANGED royaltyVars
    /\ UNCHANGED extVars

\* record pushed, parent present: currentPDA = parentPDA, depth++.  The
\* preview fetch of the parent only logs, and its errors are swallowed.
TraceMoveToParent ==
    /\ pcTrace = "loop"
    /\ LoopGuard(currentPDA, depth, maxDepth)
    /\ ledger[currentPDA].exists
    /\ LET decoded == decodeModelAccountData(currentPDA, ledger[currentPDA])
       IN  /\ decoded # NoValue
           /\ decoded.parentPDA # NoParent
           /\ lineage' = Append(lineage, SetModelPDA(decoded, currentPDA))
           /\ currentPDA' = decoded.parentPDA
    /\ depth' = depth + 1
    /\ UNCHANGED <<ledger, modelPDA, maxDepth, violations, pcTrace, trace>>
    /\ fetchCalls' = fetchCalls + 2
    /\ UNCHANGED prevTrace
    /\ UNCHANGED royaltyVars
    /\ UNCHANGED extVars

\* record pushed, no parent: break
TraceReachedRoot ==
    /\ pcTrace = "loop"
    /\ LoopGuard(currentPDA, depth, maxDepth)
    /\ ledger[currentPDA].exists
    /\ LET decoded == decodeModelAccountData(currentPDA, ledger[currentPDA])
       IN  /\ decoded # NoValue
           /\ decoded.parentPDA = NoParent
           /\ lineage' = Append(lineage, SetModelPDA(decoded, currentPDA))
    /\ trace' = NormalReturn(lineage', depth, maxDepth, violations)
    /\ pcTrace' = "done"
    /\ UNCHANGED <<ledger, modelPDA, maxDepth, currentPDA, depth, violations>>
    /\ fetchCalls' = fetchCalls + 1
    /\ UNCHANGED prevTrace
    /\ UNCHANGED royaltyVars
    /\ UNCHANGED extVars

\* the loop condition fails
TraceLoopExit ==
    /\ pcTrace = "loop"
    /\ ~LoopGuard(currentPDA, depth, maxDepth)
    /\ trace' = NormalReturn(lineage, depth, maxDepth, violations)
    /\ pcTrace' = "done"
    /\ UNCHANGED <<ledger, modelPDA, maxDepth, currentPDA, depth, lineage,
                   violations>>
    /\ fetchCalls' = fetchCalls
    /\ UNCHANGED prevTrace
    /\ UNCHANGED royaltyVars
    /\ UNCHANGED extVars

\* getAccountInfo(currentPDA) throws (the RPC failed on its last attempt):
\* the catch block returns what was collected so far
TraceFetchThrows ==
    /\ pcTrace = "loop"
    /\ LoopGuard(currentPDA, depth, maxDepth)
    /\ trace' = CatchReturn(lineage, depth)
    /\ pcTrace' = "done"
    /\ UNCHANGED <<ledger, modelPDA, maxDepth, currentPDA, depth, lineage,
                   violations>>
    /\ fetchCalls' = fetchCalls + 1
    /\ UNCHANGED prevTrace
    /\ UNCHANGED royaltyVars
    /\ UNCHANGED extVars

\* the service is asked again with the same arguments; the ledger is unchanged
TraceCallAgain ==
    /\ pcTrace = "done"
    /\ prevTrace = NoValue
    /\ prevTrace' = trace
    /\ trace' = NoValue
    /\ pcTrace' = "start"
    /\ UNCHANGED <<ledger, modelPDA, maxDepth, currentPDA, depth, lineage,
                   violations, fetchCalls>>
    /\ UNCHANGED royaltyVars
    /\ UNCHANGED extVars

NextTrace ==
    \/ TraceBegin
    \/ TraceAccountNotFound
    \/ TraceDecodeFailed
    \/ TraceMoveToParent
    \/ TraceReachedRoot
    \/ TraceLoopExit
    \/ TraceFetchThrows

SpecTrace == InitTrace /\ [][NextTrace]_vars

NextTraceTwice ==
    \/ TraceBegin
    \/ TraceAccountNotFound
    \/ TraceDecodeFailed
    \/ TraceMoveToParent
    \/ TraceReachedRoot
    \/ TraceLoopExit
    \/ TraceFetchThrows
    \/ TraceCallAgain

SpecTraceTwice == InitTrace /\ [][NextTraceTwice]_vars

(***************************************************************************)
(* Transaction assembly: createModelRegistrationTransaction,               *)
(* createSubscriptionTransaction and distributeFromTreasury                *)
(* (SpecAssemble).  The royalty loop above runs as the callee; the trace   *)
(* returned by traceLineage is an input of the call.                       *)
(***************************************************************************)
\* the keys that are not model addresses
SystemProgramId == DummyPDA
TreasuryKey == NumAddr + 2
UserWallet == NumAddr + 3
PlatformFeeWallet == NumAddr + 4
SubscriptionReceiptPDA == NumAddr + 5
ModelDeveloperWallet == NumAddr + 6
ModelAccountPDA == NumAddr + 7
CreatorWallet == NumAddr + 8

\* one element of a TransactionInstruction's keys
AccountMeta(pubkey, isSigner, isWritable) ==
    [pubkey |-> pubkey, isSigner |-> isSigner, isWritable |-> isWritable]

ProgramInstruction(method, keys) ==
    [kind |-> "program", method |-> method, keys |-> keys]

\* SystemProgram.transfer({ fromPubkey, toPubkey, lamports })
Transfer(fromPubkey, toPubkey, lamports) ==
    [kind |-> "transfer", fromPubkey |-> fromPubkey, toPubkey |-> toPubkey,
     lamports |-> lamports]

\* new Transaction()
NewTransaction ==
    [instructions |-> <<>>, recentBlockhash |-> FALSE, feePayer |-> NoParent,
     signers |-> <<>>]

\* transaction.add(...)
AddAll(tx, instrs) == [tx EXCEPT !.instructions = @ \o instrs]

\* subscriptionData.modelPubkey: the address the given trace was walked from
ModelPubkeyOf(lt) ==
    IF lt.lineage = <<>> THEN 1 ELSE lt.lineage[1].modelPDA

\* the keys array of the create_model instruction
RegistrationKeysWithoutDummy(parent) ==
    <<AccountMeta(ModelAccountPDA, FALSE, TRUE),
      AccountMeta(CreatorWallet, FALSE, FALSE),
      AccountMeta(TreasuryKey, TRUE, TRUE)>>
    \o (IF parent # NoParent
        THEN <<AccountMeta(parent, FALSE, FALSE)>>
        ELSE <<>>)
    \o <<AccountMeta(SystemProgramId, FALSE, FALSE)>>

RegistrationKeys(parent) ==
    <<AccountMeta(ModelAccountPDA, FALSE, TRUE),
      AccountMeta(CreatorWallet, FALSE, FALSE),
      AccountMeta(TreasuryKey, TRUE, TRUE)>>
    \o (IF parent # NoParent
        THEN <<AccountMeta(parent, FALSE, FALSE)>>
        ELSE <<AccountMeta(SystemProgramId, FALSE, FALSE)>>)
    \o <<AccountMeta(SystemProgramId, FALSE, FALSE)>>

\* the keys array of the purchase_subscription instruction
PurchaseKeys(modelPubkey) ==
    <<AccountMeta(SubscriptionReceiptPDA, FALSE, TRUE),
      AccountMeta(UserWallet, TRUE, TRUE),
      AccountMeta(modelPubkey, FALSE, TRUE),
      AccountMeta(TreasuryKey, TRUE, TRUE),
      AccountMeta(SystemProgramId, FALSE, FALSE)>>

\* if (platformWallet && royaltyDistribution.platformAmount > 0)
PlatformTransfers(dist, wallet) ==
    IF wallet # NoParent /\ dist.platformAmount > 0
    THEN <<Transfer(UserWallet, wallet, dist.platformAmount)>>
    ELSE <<>>

\* for (const lineageRoyalty of royaltyDistribution.lineageRoyalties)
SubscriptionLineageTransfersReversed(dist) ==
    [k \in 1..Len(dist.lineageRoyalties) |->
        LET lr == dist.lineageRoyalties[Len(dist.lineageRoyalties) - k + 1]
        IN  Transfer(UserWallet, lr.developerWallet, lr.amount)]

SubscriptionLineageTransfers(dist) ==
    [k \in 1..Len(dist.lineageRoyalties) |->
        Transfer(UserWallet, dist.lineageRoyalties[k].developerWallet,
                 dist.lineageRoyalties[k].amount)]

\* if (subscriptionData.modelDeveloperWallet && developerAmount > 0)
DeveloperTransfers(dist, wallet) ==
    IF wallet # NoParent /\ dist.developerAmount > 0
    THEN <<Transfer(UserWallet, wallet, dist.developerAmount)>>
    ELSE <<>>

\* if (distribution.developerAmount > 0)
TreasuryDeveloperTransfers(dist, wallet) ==
    IF dist.developerAmount > 0
    THEN <<Transfer(TreasuryKey, wallet, dist.developerAmount)>>
    ELSE <<>>

\* for (const lr of distribution.lineageRoyalties) if (lr.amount > 0)
TreasuryLineageTransfersUnguarded(royalties) ==
    [k \in 1..Len(royalties) |->
        Transfer(TreasuryKey, royalties[k].developerWallet, royalties[k].amount)]

RECURSIVE TreasuryLineageTransfers(_)
TreasuryLineageTransfers(royalties) ==
    IF royalties = <<>> THEN <<>>
    ELSE (IF royalties[1].amount > 0
          THEN <<Transfer(TreasuryKey, royalties[1].developerWallet,
                          royalties[1].amount)>>
          ELSE <<>>)
         \o TreasuryLineageTransfers(Tail(royalties))

\* what the builder's own traceLineage call returns: any lineage with
\* violations, or a non-empty lineage without duplicates and without them
BuilderTraces ==
    {[lineage |-> lin, isValid |-> FALSE] : lin \in InputLineages}
    \cup {[lineage |-> lin, isValid |-> TRUE] :
              lin \in {l \in InputLineages :
                          /\ l # <<>>
                          /\ \A a, b \in 1..Len(l) :
                                a # b => l[a].modelPDA # l[b].modelPDA}}

\* the arguments of the royalty calculation, none of its locals yet
RoyaltyNotCalled ==
    /\ totalLamports \in Totals
    /\ platformFeeBps \in FeeBpsValues
    /\ minRoyaltyLamports \in MinRoyaltyValues
    /\ lineageTrace \in BuilderTraces
    /\ platformAmount = 0
    /\ remainingAmount = 0
    /\ lineageRoyalties = <<>>
    /\ totalLineageAmount = 0
    /\ i = 0
    /\ pcRoyalty = "idle"
    /\ distribution = NoValue

InitAssemble ==
    /\ TraceIdle
    /\ CodecIdle
    /\ RouteIdle
    /\ FetchIdle
    /\ transaction = NoValue
    /\ pcAsm = "start"
    /\ \/ /\ asmKind = "subscription"
          /\ RoyaltyNotCalled
          /\ platformWallet \in {NoParent, PlatformFeeWallet}
          /\ parentModelPubkey = NoParent
       \/ /\ asmKind = "treasury"
          /\ RoyaltyNotCalled
          /\ platformWallet = NoParent
          /\ parentModelPubkey = NoParent
       \/ /\ asmKind = "registration"
          /\ RoyaltyIdle
          /\ platformWallet = NoParent
          /\ parentModelPubkey \in Addr \cup {NoParent}

\* the call of calculateLineageRoyaltyDistribution
CallRoyalty ==
    /\ pcRoyalty' = "start"
    /\ UNCHANGED <<totalLamports, lineageTrace, platformFeeBps,
                   minRoyaltyLamports, platformAmount, remainingAmount,
                   lineageRoyalties, totalLineageAmount, i, distribution>>

\* createModelRegistrationTransaction, whole body
CreateModelRegistration ==
    /\ asmKind = "registration"
    /\ pcAsm = "start"
    /\ transaction' =
          [AddAll(NewTransaction,
                  <<ProgramInstruction("create_model",
                                       RegistrationKeys(parentModelPubkey))>>)
              EXCEPT !.recentBlockhash = TRUE, !.feePayer = TreasuryKey]
    /\ pcAsm' = "done"
    /\ UNCHANGED <<asmKind, platformWallet, parentModelPubkey>>
    /\ UNCHANGED codecVars
    /\ UNCHANGED routeVars
    /\ UNCHANGED fetchVars
    /\ UNCHANGED royaltyVars
    /\ UNCHANGED traceVars

\* createSubscriptionTransaction up to the royalty calculation
SubscriptionBegin ==
    /\ asmKind = "subscription"
    /\ pcAsm = "start"
    /\ transaction' =
          AddAll(NewTransaction,
                 <<ProgramInstruction("purchase_subscription",
                                      PurchaseKeys(ModelPubkeyOf(lineageTrace)))>>)
    /\ pcAsm' = "calc"
    /\ CallRoyalty
    /\ UNCHANGED <<asmKind, platformWallet, parentModelPubkey>>
    /\ UNCHANGED codecVars
    /\ UNCHANGED routeVars
    /\ UNCHANGED fetchVars
    /\ UNCHANGED traceVars

\* createSubscriptionTransaction after the royalty calculation
AssembleSubscription ==
    /\ asmKind = "subscription"
    /\ pcAsm = "calc"
    /\ pcRoyalty = "done"
    /\ transaction' =
          AddAll(transaction,
                 PlatformTransfers(distribution, platformWallet)
                 \o SubscriptionLineageTransfers(distribution)
                 \o DeveloperTransfers(distribution, ModelDeveloperWallet))
    /\ pcAsm' = "done"
    /\ UNCHANGED <<asmKind, platformWallet, parentModelPubkey>>
    /\ UNCHANGED codecVars
    /\ UNCHANGED routeVars
    /\ UNCHANGED fetchVars
    /\ UNCHANGED royaltyVars
    /\ UNCHANGED traceVars

\* distributeFromTreasury up to the royalty calculation
TreasuryBegin ==
    /\ asmKind = "treasury"
    /\ pcAsm = "start"
    /\ pcAsm' = "calc"
    /\ CallRoyalty
    /\ UNCHANGED <<asmKind, platformWallet, parentModelPubkey, transaction>>
    /\ UNCHANGED codecVars
    /\ UNCHANGED routeVars
    /\ UNCHANGED fetchVars
    /\ UNCHANGED traceVars

\* distributeFromTreasury after the royalty calculation
AssembleTreasury ==
    /\ asmKind = "treasury"
    /\ pcAsm = "calc"
    /\ pcRoyalty = "done"
    /\ transaction' =
          [AddAll(NewTransaction,
                  TreasuryLineageTransfers(distribution.lineageRoyalties)
                  \o TreasuryDeveloperTransfers(distribution,
                                                ModelDeveloperWallet))
              EXCEPT !.recentBlockhash = TRUE, !.feePayer = TreasuryKey,
                     !.signers = <<TreasuryKey>>]
    /\ pcAsm' = "done"
    /\ UNCHANGED <<asmKind, platformWallet, parentModelPubkey>>
    /\ UNCHANGED codecVars
    /\ UNCHANGED routeVars
    /\ UNCHANGED fetchVars
    /\ UNCHANGED royaltyVars
    /\ UNCHANGED traceVars

NextAssemble ==
    \/ CreateModelRegistration
    \/ SubscriptionBegin
    \/ AssembleSubscription
    \/ TreasuryBegin
    \/ AssembleTreasury
    \/ RoyaltyBegin
    \/ LoopStopBelowMin
    \/ LoopStopInsufficient
    \/ LoopAccept
    \/ LoopExhausted

SpecAssemble == InitAssemble /\ [][NextAssemble]_vars

(***************************************************************************)
(* The Borsh encoders and decodeModelAccountData on bytes (SpecCodec).     *)
(* A Buffer is a sequence of bytes 0..255; offsets are 0-based as in the   *)
(* source.  A string is a sequence of UTF-16 code units, a public key a    *)
(* sequence of 32 bytes.                                                   *)
(***************************************************************************)
MaxStrLen == 2

\* 'a', e-acute, the euro sign, a high surrogate and a low surrogate
CodeUnits == {97, 233, 8364, 55357, 56832}

IsHighSurrogate(c) == c >= 55296 /\ c <= 56319
IsLowSurrogate(c) == c >= 56320 /\ c <= 57343
IsContinuation(b) == b >= 128 /\ b <= 191

\* Buffer.from(value, 'utf8'): an unpaired surrogate becomes EF BF BD
RECURSIVE Utf8Bytes(_)
Utf8Bytes(str) ==
    IF str = <<>> THEN <<>>
    ELSE LET c == str[1]
         IN  IF c < 128 THEN <<c>> \o Utf8Bytes(Tail(str))
             ELSE IF c < 2048
             THEN <<192 + (c \div 64), 128 + (c % 64)>> \o Utf8Bytes(Tail(str))
             ELSE IF IsHighSurrogate(c) /\ Len(str) >= 2 /\ IsLowSurrogate(str[2])
             THEN LET cp == 65536 + (c - 55296) * 1024 + (str[2] - 56320)
                  IN  <<240 + (cp \div 262144),
                        128 + ((cp \div 4096) % 64),
                        128 + ((cp \div 64) % 64),
                        128 + (cp % 64)>> \o Utf8Bytes(Tail(Tail(str)))
             ELSE IF IsHighSurrogate(c) \/ IsLowSurrogate(c)
             THEN <<239, 191, 189>> \o Utf8Bytes(Tail(str))
             ELSE <<224 + (c \div 4096), 128 + ((c \div 64) % 64), 128 + (c % 64)>>
                  \o Utf8Bytes(Tail(str))

\* the number of continuation bytes a lead byte announces
Utf8Trail(b) ==
    IF b >= 194 /\ b <= 223 THEN 1
    ELSE IF b >= 224 /\ b <= 239 THEN 2
    ELSE IF b >= 240 /\ b <= 244 THEN 3
    ELSE 0

\* how many of the bytes after the lead byte are continuation bytes, up to want
RECURSIVE Utf8Have(_, _)
Utf8Have(bytes, want) ==
    IF want = 0 \/ bytes = <<>> \/ ~IsContinuation(bytes[1]) THEN 0
    ELSE 1 + Utf8Have(Tail(bytes), want - 1)

\* buf.toString('utf8'): an ill-formed or cut sequence becomes U+FFFD
RECURSIVE Utf8ToString(_)
Utf8ToString(bytes) ==
    IF bytes = <<>> THEN <<>>
    ELSE LET b == bytes[1]
             want == Utf8Trail(b)
             have == Utf8Have(Tail(bytes), want)
             rest == SubSeq(bytes, 2 + have, Len(bytes))
         IN  IF b < 128 THEN <<b>> \o Utf8ToString(rest)
             ELSE IF want = 0 \/ have < want THEN <<65533>> \o Utf8ToString(rest)
             ELSE IF want = 1
             THEN <<(b - 192) * 64 + (bytes[2] - 128)>> \o Utf8ToString(rest)
             ELSE IF want = 2
             THEN <<(b - 224) * 4096 + (bytes[2] - 128) * 64 + (bytes[3] - 128)>>
                  \o Utf8ToString(rest)
             ELSE LET cp == (b - 240) * 262144 + (bytes[2] - 128) * 4096
                            + (bytes[3] - 128) * 64 + (bytes[4] - 128)
                  IN  <<55296 + ((cp - 65536) \div 1024),
                        56320 + ((cp - 65536) % 1024)>> \o Utf8ToString(rest)

\* buf.subarray(start, end): both ends are clamped to the buffer
Subarray(buf, start, end) ==
    LET lo == IF start > Len(buf) THEN Len(buf) ELSE start
        hi == IF end > Len(buf) THEN Len(buf) ELSE end
    IN  SubSeq(buf, lo + 1, hi)

\* the read methods raise a RangeError unless offset + width <= length
CanRead(buf, offset, width) == offset + width <= Len(buf)

\* buf.readUInt32LE(offset).  A value of 2^30 or more is read as 2^30: it
\* exceeds the length of every buffer here, so the slice after it is clamped
\* and the next read raises, whatever the exact value.
ReadUInt32LE(buf, offset) ==
    IF buf[offset + 4] >= 64 THEN 64 * 16777216
    ELSE buf[offset + 1] + 256 * buf[offset + 2] + 65536 * buf[offset + 3]
         + 16777216 * buf[offset + 4]

ReadUInt16LE(buf, offset) == buf[offset + 1] + 256 * buf[offset + 2]

ReadUInt8(buf, offset) == buf[offset + 1]

\* len.writeUInt32LE(n, 0)
WriteUInt32LE(n) ==
    <<n % 256, (n \div 256) % 256, (n \div 65536) % 256, (n \div 16777216) % 256>>

WriteUInt16LE(n) == <<n % 256, (n \div 256) % 256>>

\* an i64 below 2^31, little endian
WriteInt64LE(n) == WriteUInt32LE(n) \o <<0, 0, 0, 0>>

\* pubkey.toBuffer(): the 32 bytes of address a
PubkeyBytes(a) == [k \in 1..32 |-> a]

\* new PublicKey(bytes): the bytes as a big-endian number, kept as 32 bytes
\* (a shorter slice gives a smaller number; more than 32 bytes would raise,
\* but a slice of 32 never has more)
PublicKeyFrom(bytes) ==
    [k \in 1..32 |-> IF k <= 32 - Len(bytes) THEN 0
                     ELSE bytes[k - (32 - Len(bytes))]]

\* new PublicKey('11111111111111111111111111111111')
DummyPDABytes == [k \in 1..32 |-> 0]

\* parentPDA: PublicKey | undefined
NoKey == <<>>

\* getAnchorDiscriminator('create_model'): sha256("global:create_model")[0..8]
CreateModelDiscriminator == <<212, 233, 41, 219, 130, 212, 212, 229>>

\* the account discriminator: sha256("account:ModelAccount")[0..8]
ModelAccountDiscriminator == <<96, 158, 53, 206, 177, 115, 161, 132>>

\* encodeBorshString: u32 LE byte length, then the bytes
encodeBorshStringCharLength(value) ==
    WriteUInt32LE(Len(value)) \o Utf8Bytes(value)

encodeBorshString(value) ==
    LET data == Utf8Bytes(value)
    IN  WriteUInt32LE(Len(data)) \o data

\* encodeBorshOptionPubkey: 1 + 32 bytes for Some, 1 byte for None
encodeBorshOptionPubkey(pubkey) ==
    IF pubkey # NoParent THEN <<1>> \o PubkeyBytes(pubkey) ELSE <<0>>

\* instructionData of createModelRegistrationTransaction
CreateModelInstructionData(in) ==
    CreateModelDiscriminator
    \o encodeBorshString(in.modelName)
    \o encodeBorshString(in.metadataJson)
    \o encodeBorshString(in.cidRoot)
    \o encodeBorshOptionPubkey(in.parent)

\* a model account as the decoder expects it: discriminator, creator, three
\* strings, option tag and parent, u16 depth, i64 createdAt
ModelAccountBytes(in) ==
    ModelAccountDiscriminator
    \o PubkeyBytes(in.creator)
    \o encodeBorshString(in.modelName)
    \o encodeBorshString(in.metadataJson)
    \o encodeBorshString(in.cidRoot)
    \o encodeBorshOptionPubkey(in.parent)
    \o WriteUInt16LE(in.lineageDepth)
    \o WriteInt64LE(in.createdAt)

\* the bytes of the Option<Pubkey> body after the tag
ParentSizeAlways32(parentTag) == 32

ParentSize(parentTag) == IF parentTag = 1 THEN 32 ELSE 0

\* decodeModelAccountData: every raised error ends in the catch, return null
decodeModelAccountDataBytes(buf) ==
    LET creator == PublicKeyFrom(Subarray(buf, 8, 8 + 32))
        nameAt == 8 + 32
    IN  IF ~CanRead(buf, nameAt, 4) THEN NoValue
        ELSE
        LET modelNameLength == ReadUInt32LE(buf, nameAt)
            modelName == Utf8ToString(Subarray(buf, nameAt + 4,
                                               nameAt + 4 + modelNameLength))
            metaAt == nameAt + 4 + modelNameLength
        IN  IF ~CanRead(buf, metaAt, 4) THEN NoValue
            ELSE
            LET cidAt == metaAt + 4 + ReadUInt32LE(buf, metaAt)
            IN  IF ~CanRead(buf, cidAt, 4) THEN NoValue
                ELSE
                LET tagAt == cidAt + 4 + ReadUInt32LE(buf, cidAt)
                IN  IF ~CanRead(buf, tagAt, 1) THEN NoValue
                    ELSE
                    LET parentTag == ReadUInt8(buf, tagAt)
                        parentPDA ==
                            IF parentTag = 1
                            THEN PublicKeyFrom(Subarray(buf, tagAt + 1,
                                                        tagAt + 1 + 32))
                            ELSE NoKey
                        depthAt == tagAt + 1 + ParentSize(parentTag)
                    IN  IF ~CanRead(buf, depthAt, 2) THEN NoValue
                        ELSE [modelPDA |-> DummyPDABytes,
                              developerWallet |-> creator,
                              modelName |-> modelName,
                              depth |-> ReadUInt16LE(buf, depthAt),
                              parentPDA |-> parentPDA]

\* the field values stored in an account or sent in a payload
MetadataSamples == {<<>>, <<8364>>}
CidSamples == {<<>>, <<97, 233>>}
DepthSamples == {0, 258}
CreatedAtSamples == {1700000000}
CreatorSamples == {1, NumAddr}
ParentSamples == {NoParent, NumAddr}

CodecInputs ==
    [creator : CreatorSamples,
     modelName : SeqsOver(CodeUnits, MaxStrLen),
     metadataJson : MetadataSamples,
     cidRoot : CidSamples,
     parent : ParentSamples,
     lineageDepth : DepthSamples,
     createdAt : CreatedAtSamples]

InitCodec ==
    /\ codecInput \in CodecInputs
    /\ accountData = <<>>
    /\ bufKind = "none"
    /\ decodeResult = NoValue
    /\ pcCodec = "input"
    /\ RoyaltyIdle
    /\ TraceIdle
    /\ AsmIdle
    /\ RouteIdle
    /\ FetchIdle

CodecReady(kind, buf) ==
    /\ pcCodec = "input"
    /\ accountData' = buf
    /\ bufKind' = kind
    /\ pcCodec' = "ready"
    /\ UNCHANGED <<codecInput, decodeResult>>
    /\ UNCHANGED royaltyVars
    /\ UNCHANGED traceVars
    /\ UNCHANGED asmVars
    /\ UNCHANGED routeVars
    /\ UNCHANGED fetchVars

\* the ledger holds a whole model account
StoreAccount == CodecReady("account", ModelAccountBytes(codecInput))

\* the ledger holds only the first n bytes of a model account
StoreAccountPrefix ==
    \E n \in 0..(Len(ModelAccountBytes(codecInput)) - 1) :
        CodecReady("prefix", SubSeq(ModelAccountBytes(codecInput), 1, n))

\* the create_model payload is handed to the decoder
EncodePayload == CodecReady("payload", CreateModelInstructionData(codecInput))

\* const lineageInfo = this.decodeModelAccountData(accountInfo.data)
Decode ==
    /\ pcCodec = "ready"
    /\ decodeResult' = decodeModelAccountDataBytes(accountData)
    /\ pcCodec' = "done"
    /\ UNCHANGED <<codecInput, accountData, bufKind>>
    /\ UNCHANGED royaltyVars
    /\ UNCHANGED traceVars
    /\ UNCHANGED asmVars
    /\ UNCHANGED routeVars
    /\ UNCHANGED fetchVars

NextCodec ==
    \/ StoreAccount
    \/ StoreAccountPrefix
    \/ EncodePayload
    \/ Decode

SpecCodec == InitCodec /\ [][NextCodec]_vars

(***************************************************************************)
(* POST /process-signature-royalty (SpecRoute): one action per outcome of  *)
(* each awaited step of the handler.  The request record holds the body    *)
(* and what the ledger and the service answer during the call.             *)
(***************************************************************************)
MIN_SUBSCRIPTION_LAMPORTS == 1000000

\* no address twice (a valid trace has no duplicate modelPDA)
PairwiseDistinctAddrs(addrs) ==
    \A a, b \in 1..Len(addrs) : a # b => addrs[a] # addrs[b]

\* what extractTransferredAmountFromTransaction returns
ExtractedAmounts ==
    {0, 1, MIN_SUBSCRIPTION_LAMPORTS - 1, MIN_SUBSCRIPTION_LAMPORTS, 1000000000}

\* what traceLineage(modelPDA, 32) returns
RouteTraces ==
    {[lineage |-> InputLineage(addrs), totalDepth |-> Len(addrs),
      isValid |-> TRUE, violations |-> <<>>] :
         addrs \in {t \in SeqsOver(Addr, MaxLineageLen) :
                        Len(t) >= 1 /\ PairwiseDistinctAddrs(t)}}
    \cup {[lineage |-> <<>>, totalDepth |-> 0, isValid |-> FALSE,
           violations |-> <<NotFound>>],
          [lineage |-> InputLineage(<<1>>), totalDepth |-> 1, isValid |-> FALSE,
           violations |-> <<DecodeFailed>>],
          [lineage |-> <<>>, totalDepth |-> 0, isValid |-> FALSE,
           violations |-> <<TracingFailed>>]}

Requests ==
    [schemaOk : BOOLEAN,            \* schema.validate(req.body) has no error
     pdaOk : BOOLEAN,               \* new PublicKey(value.modelPDA) succeeds
     txInfo : {"null", "err", "ok", "throws"},   \* getTransactionInfo
     amount : ExtractedAmounts,
     trace : RouteTraces,
     sendOk : BOOLEAN]              \* distributeFromTreasury resolves

InitRoute ==
    /\ request \in Requests
    /\ response = NoValue
    /\ treasurySends = 0
    /\ requestsSeen = 1
    /\ pcRoute = "validate"
    /\ RoyaltyIdle
    /\ TraceIdle
    /\ AsmIdle
    /\ CodecIdle
    /\ FetchIdle

\* res.status(code).json({ success, error, ... })
Respond(status, error, sends) ==
    /\ response' = [status |-> status, error |-> error]
    /\ treasurySends' = sends
    /\ pcRoute' = "done"
    /\ UNCHANGED <<request, requestsSeen>>
    /\ UNCHANGED royaltyVars
    /\ UNCHANGED traceVars
    /\ UNCHANGED asmVars
    /\ UNCHANGED codecVars
    /\ UNCHANGED fetchVars

Advance(pc) ==
    /\ pcRoute' = pc
    /\ UNCHANGED <<request, response, treasurySends, requestsSeen>>
    /\ UNCHANGED royaltyVars
    /\ UNCHANGED traceVars
    /\ UNCHANGED asmVars
    /\ UNCHANGED codecVars
    /\ UNCHANGED fetchVars

\* if (totalLamports < MIN_SUBSCRIPTION_LAMPORTS)
AmountTooSmallNever(amount) == FALSE

AmountTooSmall(amount) == amount < MIN_SUBSCRIPTION_LAMPORTS

RouteValidationError ==
    /\ pcRoute = "validate"
    /\ ~request.schemaOk
    /\ Respond(400, "Validation error", treasurySends)

RouteInvalidModelPDA ==
    /\ pcRoute = "validate"
    /\ request.schemaOk
    /\ ~request.pdaOk
    /\ Respond(400, "Invalid modelPDA format", treasurySends)

RouteValidated ==
    /\ pcRoute = "validate"
    /\ request.schemaOk
    /\ request.pdaOk
    /\ Advance("transaction")

\* getTransactionInfo rethrows; the handler's catch answers 500
RouteTransactionLookupThrows ==
    /\ pcRoute = "transaction"
    /\ request.txInfo = "throws"
    /\ Respond(500, "Internal server error", treasurySends)

RouteTransactionNotFound ==
    /\ pcRoute = "transaction"
    /\ request.txInfo = "null"
    /\ Respond(404, "Transaction not found on blockchain", treasurySends)

RouteTransactionFailed ==
    /\ pcRoute = "transaction"
    /\ request.txInfo = "err"
    /\ Respond(400, "Transaction failed on blockchain", treasurySends)

\* an old transaction is only logged
RouteTransactionFound ==
    /\ pcRoute = "transaction"
    /\ request.txInfo = "ok"
    /\ Advance("amount")

RouteNoTransfer ==
    /\ pcRoute = "amount"
    /\ request.amount = 0
    /\ Respond(400, "No SOL transfer found in transaction", treasurySends)

RouteAmountTooSmall ==
    /\ pcRoute = "amount"
    /\ request.amount # 0
    /\ AmountTooSmall(request.amount)
    /\ Respond(400, "Transaction amount too small", treasurySends)

RouteAmountAccepted ==
    /\ pcRoute = "amount"
    /\ request.amount # 0
    /\ ~AmountTooSmall(request.amount)
    /\ Advance("lineage")

RouteInvalidLineage ==
    /\ pcRoute = "lineage"
    /\ ~request.trace.isValid
    /\ Respond(400, "Invalid lineage detected", treasurySends)

\* the distribution is computed, lineage[0]?.developerWallet is looked up
\* and distributeFromTreasury sends the treasury transaction
RouteDistribute ==
    /\ pcRoute = "lineage"
    /\ request.trace.isValid
    /\ IF request.trace.lineage = <<>>
       THEN Respond(400, "No developer wallet found in lineage", treasurySends)
       ELSE IF request.sendOk
       THEN Respond(200, "", treasurySends + 1)
       ELSE Respond(500, "Internal server error", treasurySends + 1)

NextRoute ==
    \/ RouteValidationError
    \/ RouteInvalidModelPDA
    \/ RouteValidated
    \/ RouteTransactionLookupThrows
    \/ RouteTransactionNotFound
    \/ RouteTransactionFailed
    \/ RouteTransactionFound
    \/ RouteNoTransfer
    \/ RouteAmountTooSmall
    \/ RouteAmountAccepted
    \/ RouteInvalidLineage
    \/ RouteDistribute

SpecRoute == InitRoute /\ [][NextRoute]_vars

(***************************************************************************)
(* The same transactionSignature is posted again (SpecRouteRetry).  The    *)
(* handler keeps no record of signatures: a new request starts at the top. *)
(***************************************************************************)
MaxRequests == 2

\* the client sends the same body again; the ledger answers as before, the
\* treasury send may go either way
RouteSameSignatureAgain ==
    /\ pcRoute = "done"
    /\ requestsSeen < MaxRequests
    /\ requestsSeen' = requestsSeen + 1
    /\ request' \in {[request EXCEPT !.sendOk = b] : b \in BOOLEAN}
    /\ response' = NoValue
    /\ pcRoute' = "validate"
    /\ UNCHANGED treasurySends
    /\ UNCHANGED royaltyVars
    /\ UNCHANGED traceVars
    /\ UNCHANGED asmVars
    /\ UNCHANGED codecVars
    /\ UNCHANGED fetchVars

NextRouteRetry ==
    \/ RouteValidationError
    \/ RouteInvalidModelPDA
    \/ RouteValidated
    \/ RouteTransactionLookupThrows
    \/ RouteTransactionNotFound
    \/ RouteTransactionFailed
    \/ RouteTransactionFound
    \/ RouteNoTransfer
    \/ RouteAmountTooSmall
    \/ RouteAmountAccepted
    \/ RouteInvalidLineage
    \/ RouteDistribute
    \/ RouteSameSignatureAgain

SpecRouteRetry == InitRoute /\ [][NextRouteRetry]_vars

(***************************************************************************)
(* getAccountInfo(publicKey, maxRetries, delayMs) (SpecFetch): the retry   *)
(* loop around connection.getAccountInfo.                                  *)
(***************************************************************************)
MaxMaxRetries == 3

RpcOutcomes == {"data", "none", "throws"}

WaitsBeforeRetryAlways(a, retries) == TRUE

\* if (attempt < maxRetries) await setTimeout(delayMs)
WaitsBeforeRetry(a, retries) == a < retries

InitFetch ==
    /\ maxRetries \in 0..MaxMaxRetries
    /\ rpcOutcomes \in [1..MaxMaxRetries -> RpcOutcomes]
    /\ attempt = 1
    /\ rpcCalls = 0
    /\ waitLog = <<>>
    /\ fetchResult = NoValue
    /\ pcFetch = "loop"
    /\ RoyaltyIdle
    /\ TraceIdle
    /\ AsmIdle
    /\ CodecIdle
    /\ RouteIdle

\* accountInfo && accountInfo.data: return accountInfo
FetchFound ==
    /\ pcFetch = "loop"
    /\ attempt <= maxRetries
    /\ rpcCalls < MaxMaxRetries
    /\ rpcOutcomes[rpcCalls + 1] = "data"
    /\ rpcCalls' = rpcCalls + 1
    /\ fetchResult' = [kind |-> "account", foundAt |-> rpcCalls + 1]
    /\ pcFetch' = "done"
    /\ UNCHANGED <<attempt, waitLog>>
    /\ UNCHANGED <<maxRetries, rpcOutcomes>>
    /\ UNCHANGED royaltyVars
    /\ UNCHANGED traceVars
    /\ UNCHANGED asmVars
    /\ UNCHANGED codecVars
    /\ UNCHANGED routeVars

\* no account: wait unless this was the last attempt, then go on
FetchNotFound ==
    /\ pcFetch = "loop"
    /\ attempt <= maxRetries
    /\ rpcCalls < MaxMaxRetries
    /\ rpcOutcomes[rpcCalls + 1] = "none"
    /\ rpcCalls' = rpcCalls + 1
    /\ waitLog' = IF WaitsBeforeRetry(attempt, maxRetries)
                     THEN Append(waitLog, attempt) ELSE waitLog
    /\ attempt' = attempt + 1
    /\ UNCHANGED <<fetchResult, pcFetch>>
    /\ UNCHANGED <<maxRetries, rpcOutcomes>>
    /\ UNCHANGED royaltyVars
    /\ UNCHANGED traceVars
    /\ UNCHANGED asmVars
    /\ UNCHANGED codecVars
    /\ UNCHANGED routeVars

\* the RPC call throws: wait and go on, or rethrow on the last attempt
FetchThrows ==
    /\ pcFetch = "loop"
    /\ attempt <= maxRetries
    /\ rpcCalls < MaxMaxRetries
    /\ rpcOutcomes[rpcCalls + 1] = "throws"
    /\ rpcCalls' = rpcCalls + 1
    /\ IF WaitsBeforeRetry(attempt, maxRetries)
          THEN /\ waitLog' = Append(waitLog, attempt)
               /\ attempt' = attempt + 1
               /\ UNCHANGED <<fetchResult, pcFetch>>
          ELSE /\ fetchResult' = [kind |-> "throws", foundAt |-> 0]
               /\ pcFetch' = "done"
               /\ UNCHANGED <<attempt, waitLog>>
    /\ UNCHANGED <<maxRetries, rpcOutcomes>>
    /\ UNCHANGED royaltyVars
    /\ UNCHANGED traceVars
    /\ UNCHANGED asmVars
    /\ UNCHANGED codecVars
    /\ UNCHANGED routeVars

\* the loop ran out: return null
FetchReturnNull ==
    /\ pcFetch = "loop"
    /\ attempt > maxRetries
    /\ fetchResult' = [kind |-> "null", foundAt |-> 0]
    /\ pcFetch' = "done"
    /\ UNCHANGED <<attempt, rpcCalls, waitLog>>
    /\ UNCHANGED <<maxRetries, rpcOutcomes>>
    /\ UNCHANGED royaltyVars
    /\ UNCHANGED traceVars
    /\ UNCHANGED asmVars
    /\ UNCHANGED codecVars
    /\ UNCHANGED routeVars

NextFetch ==
    \/ FetchFound
    \/ FetchNotFound
    \/ FetchThrows
    \/ FetchReturnNull

SpecFetch == InitFetch /\ [][NextFetch]_vars

(***************************************************************************)
(* Properties of calculateLineageRoyaltyDistribution (SpecRoyalty).        *)
(***************************************************************************)
RoyaltyDone == pcRoyalty = "done"

RECURSIVE SumAmounts(_)
SumAmounts(royalties) ==
    IF royalties = <<>> THEN 0
    ELSE royalties[1].amount + SumAmounts(Tail(royalties))

\* C1: in every returned distribution platformAmount + totalLineageAmount +
\* developerAmount equals totalLamports exactly (and the same balance holds
\* for the running values at every step of the loop).
C1_Conservation ==
    /\ pcRoyalty = "loop" =>
          platformAmount + totalLineageAmount + remainingAmount = totalLamports
    /\ RoyaltyDone =>
          distribution.platformAmount + distribution.totalLineageAmount
              + distribution.developerAmount = distribution.totalLamports

C1_Witness ==
    /\ RoyaltyDone
    /\ Len(distribution.lineageRoyalties) >= 2
    /\ distribution.platformAmount > 0
    /\ distribution.developerAmount > 0
    /\ distribution.totalLineageAmount > 0

\* C2: the paid entries are the root-side run of the lineage, listed root
\* first: lineageRoyalties[k] is the k-th entry counted from the root.
C2_RootSideRun ==
    RoyaltyDone =>
        LET lin == lineageTrace.lineage
            paid == distribution.lineageRoyalties
        IN  /\ Len(paid) <= Len(lin)
            /\ \A k \in 1..Len(paid) :
                  paid[k].modelPDA = lin[Len(lin) - k + 1].modelPDA

\* C2: an iteration accepts its entry iff share >= minRoyaltyLamports and
\* share <= remainingAmount at that moment; a rejected entry ends the loop
\* with nothing more paid.
C2_AcceptOrStop ==
    (pcRoyalty = "loop" /\ i >= 1) =>
        LET share == FloorMulDiv(totalLamports, 250, 10000)
        IN  IF share >= minRoyaltyLamports /\ share <= remainingAmount
            THEN /\ pcRoyalty' = "loop"
                 /\ Len(lineageRoyalties') = Len(lineageRoyalties) + 1
                 /\ lineageRoyalties'[Len(lineageRoyalties')].modelPDA
                        = lineageTrace.lineage[i].modelPDA
                 /\ i' = i - 1
            ELSE /\ pcRoyalty' = "done"
                 /\ distribution'.lineageRoyalties = lineageRoyalties

C4_OnlyTrueAncestorsPaid ==
    (/\ RoyaltyDone
     /\ totalLamports = 1000000000
     /\ platformFeeBps = 500
     /\ minRoyaltyLamports = 1000
     /\ Len(lineageTrace.lineage) \in 1..3
     /\ \A a, b \in 1..Len(lineageTrace.lineage) :
           a # b => lineageTrace.lineage[a].modelPDA # lineageTrace.lineage[b].modelPDA) =>
        LET lin == lineageTrace.lineage
            paid == distribution.lineageRoyalties
        IN  /\ Len(paid) = Len(lin) - 1
            /\ \A k \in 1..Len(paid) : paid[k].modelPDA # lin[1].modelPDA
            /\ distribution.developerAmount
                  = 950000000 - (Len(lin) - 1) * 25000000

\* C5: no returned lineageRoyalties entry has amount 0.
C5_NoZeroAmountEntry ==
    RoyaltyDone =>
        \A k \in 1..Len(distribution.lineageRoyalties) :
            distribution.lineageRoyalties[k].amount > 0

\* C27: no amount is negative: 0 <= platformAmount <= totalLamports, every
\* share >= 0, developerAmount >= 0, and the running remainder is never
\* below 0 during the loop.
C27_NoNegativeAmount ==
    /\ pcRoyalty \in {"loop", "done"} =>
          /\ 0 <= platformAmount
          /\ platformAmount <= totalLamports
          /\ remainingAmount >= 0
          /\ totalLineageAmount >= 0
          /\ \A k \in 1..Len(lineageRoyalties) : lineageRoyalties[k].amount >= 0
    /\ RoyaltyDone =>
          /\ 0 <= distribution.platformAmount
          /\ distribution.platformAmount <= totalLamports
          /\ distribution.developerAmount >= 0
          /\ distribution.remainingAmount >= 0
          /\ \A k \in 1..Len(distribution.lineageRoyalties) :
                distribution.lineageRoyalties[k].amount >= 0

\* the whole total goes to the platform and nothing is left for any share
C27_Witness ==
    /\ RoyaltyDone
    /\ totalLamports = 1000000000
    /\ platformFeeBps = 10000
    /\ Len(lineageTrace.lineage) = 2
    /\ distribution.platformAmount = totalLamports
    /\ distribution.developerAmount = 0
    /\ distribution.lineageRoyalties = <<>>

\* C28: every returned distribution, from either calculation, has
\* totalLineageAmount = the sum of its lineageRoyalties amounts and
\* developerAmount = remainingAmount.
C28_TotalsMatchEntries ==
    RoyaltyDone =>
        /\ distribution.totalLineageAmount
              = SumAmounts(distribution.lineageRoyalties)
        /\ distribution.developerAmount = distribution.remainingAmount

(***************************************************************************)
(* Properties of traceLineage (SpecTrace).                                 *)
(***************************************************************************)
TraceDone == pcTrace = "done"

\* the call returned from the statement after the loop, not from the catch
ReturnedNormally == TraceDone /\ trace.violations # <<TracingFailed>>

Reported(kind) == \E k \in 1..Len(trace.violations) : trace.violations[k] = kind

\* the parent stored in the ledger for an address, if its account is
\* present and decodable
LedgerParent(a) ==
    IF a # NoParent /\ ledger[a].exists /\ ledger[a].decodes
    THEN ledger[a].parent
    ELSE NoParent

\* the start has at least n successive parent links
RECURSIVE HasLinks(_, _)
HasLinks(a, n) ==
    \/ n = 0
    \/ /\ LedgerParent(a) # NoParent
       /\ HasLinks(LedgerParent(a), n - 1)

\* the addresses on the parent chain of a, following at most n links
RECURSIVE ChainAddrs(_, _)
ChainAddrs(a, n) ==
    IF a = NoParent THEN {}
    ELSE IF n = 0 THEN {a}
    ELSE {a} \cup ChainAddrs(LedgerParent(a), n - 1)

\* NumAddr links visit NumAddr + 1 addresses, so one of them repeats
ChainHasCycle(a) == HasLinks(a, NumAddr)

PairwiseDistinct(lin) ==
    \A a, b \in 1..Len(lin) : a # b => lin[a].modelPDA # lin[b].modelPDA

\* C6: when the start has at least maxDepth successive parent links the
\* walk stops at the cap with exactly maxDepth records, totalDepth =
\* maxDepth, isValid = false and the max-depth violation; with fewer links
\* the max-depth violation is never reported.
C6_DepthCap ==
    /\ (ReturnedNormally /\ HasLinks(modelPDA, maxDepth)) =>
          /\ Len(trace.lineage) = maxDepth
          /\ trace.totalDepth = maxDepth
          /\ ~trace.isValid
          /\ Reported(MaxDepthExceeded)
    /\ (TraceDone /\ ~HasLinks(modelPDA, maxDepth)) =>
          ~Reported(MaxDepthExceeded)

\* an acyclic chain longer than the cap, cut at the cap
C6_Witness ==
    /\ ReturnedNormally
    /\ maxDepth = 2
    /\ HasLinks(modelPDA, maxDepth)
    /\ ~ChainHasCycle(modelPDA)
    /\ Len(trace.lineage) = 2
    /\ Reported(MaxDepthExceeded)

C8_LineageAlwaysDistinct ==
    TraceDone => PairwiseDistinct(trace.lineage)

\* C8 amended: the addresses of a returned lineage are pairwise distinct
\* whenever isValid is true, and on the normal return path whenever the
\* circular-reference violation is not reported.
C8_ValidLineageDistinct ==
    /\ (TraceDone /\ trace.isValid) => PairwiseDistinct(trace.lineage)
    /\ (ReturnedNormally /\ ~Reported(CircularReference)) =>
          PairwiseDistinct(trace.lineage)

\* a cyclic ledger cut by the cap before any address repeats
C8_Witness ==
    /\ ReturnedNormally
    /\ ChainHasCycle(modelPDA)
    /\ ~Reported(CircularReference)
    /\ Len(trace.lineage) >= 2

\* C9: lineage.length - 1 <= maxDepth in every returned trace.
C9_LengthBound ==
    TraceDone => Len(trace.lineage) - 1 <= maxDepth

C9_Witness ==
    /\ TraceDone
    /\ ChainHasCycle(modelPDA)
    /\ maxDepth >= 2
    /\ Len(trace.lineage) = maxDepth

\* C10: a returned lineage starts at the queried address, each next entry
\* is the parent of the one before, and in a valid trace the last entry has
\* no parent.
C10_ParentChain ==
    TraceDone =>
        LET lin == trace.lineage
        IN  /\ Len(lin) >= 1 => lin[1].modelPDA = modelPDA
            /\ \A k \in 1..(Len(lin) - 1) :
                  lin[k + 1].modelPDA = lin[k].parentPDA
            /\ trace.isValid =>
                  /\ Len(lin) >= 1
                  /\ lin[Len(lin)].parentPDA = NoParent

C10_Witness ==
    /\ TraceDone
    /\ trace.isValid
    /\ Len(trace.lineage) = 3
    /\ trace.lineage[3].parentPDA = NoParent

\* C11: in every returned trace, from the normal return and from the catch
\* block, isValid is true exactly when the violations list is empty.
C11_ValidIffNoViolations ==
    TraceDone => (trace.isValid <=> Len(trace.violations) = 0)

\* a cyclic ledger: the loop itself recorded nothing, the checks after the
\* loop did
C11_Witness ==
    /\ ReturnedNormally
    /\ violations = <<>>
    /\ Len(trace.violations) >= 1
    /\ ~trace.isValid

\* the walk failed at currentPDA (absent account, undecodable bytes or a
\* fetch that raised)
WalkFailed ==
    /\ TraceDone
    /\ \/ Reported(NotFound)
       \/ Reported(DecodeFailed)
       \/ Reported(TracingFailed)

\* C12: a call always ends in a returned trace; when the account at some
\* depth is absent, undecodable or its fetch raises, the walk stops there:
\* the trace holds exactly the records decoded before (one per link
\* followed, the failing address not among them as a new record), isValid
\* is false and there is at least one violation.
C12_FailureState ==
    /\ pcTrace \in {"start", "loop", "done"}
    /\ WalkFailed =>
          /\ ~trace.isValid
          /\ Len(trace.violations) >= 1
          /\ trace.lineage = lineage
          /\ Len(trace.lineage) = depth
          /\ IF depth = 0 THEN currentPDA = modelPDA
             ELSE trace.lineage[depth].parentPDA = currentPDA

C12_FailureStep ==
    (/\ pcTrace = "loop"
     /\ LoopGuard(currentPDA, depth, maxDepth)
     /\ ~(ledger[currentPDA].exists /\ ledger[currentPDA].decodes)) =>
        /\ pcTrace' = "done"
        /\ trace'.lineage = lineage
        /\ ~trace'.isValid

C12_FailureStopsWalk == [](C12_FailureState) /\ [][C12_FailureStep]_vars

C12_Witness ==
    /\ WalkFailed
    /\ Reported(TracingFailed)
    /\ Len(trace.lineage) = 2

\* C13: one traceLineage call makes at most maxDepth account fetches
\* (counting one getAccountInfo call as one round trip).
C13_AtMostMaxDepthFetches ==
    TraceDone => fetchCalls <= maxDepth

(***************************************************************************)
(* Properties of the transaction builders (SpecAssemble).                  *)
(***************************************************************************)
SubscriptionBuilt == asmKind = "subscription" /\ pcAsm = "done"

TreasuryBuilt == asmKind = "treasury" /\ pcAsm = "done"

RegistrationBuilt == asmKind = "registration" /\ pcAsm = "done"

RECURSIVE SumLamports(_)
SumLamports(instrs) ==
    IF instrs = <<>> THEN 0
    ELSE (IF instrs[1].kind = "transfer" THEN instrs[1].lamports ELSE 0)
         + SumLamports(Tail(instrs))

RECURSIVE CountNonZero(_)
CountNonZero(amounts) ==
    IF amounts = <<>> THEN 0
    ELSE (IF amounts[1] > 0 THEN 1 ELSE 0) + CountNonZero(Tail(amounts))

\* platformAmount, every accepted lineage share, developerAmount
ComputedAmounts(dist) ==
    <<dist.platformAmount>>
    \o [k \in 1..Len(dist.lineageRoyalties) |-> dist.lineageRoyalties[k].amount]
    \o <<dist.developerAmount>>

C15_NoZeroAmountTransfer ==
    (SubscriptionBuilt \/ TreasuryBuilt) =>
        \A k \in 1..Len(transaction.instructions) :
            transaction.instructions[k].kind = "transfer" =>
                transaction.instructions[k].lamports > 0

PaidEntries(royalties) == SelectSeq(royalties, LAMBDA entry : entry.amount > 0)

\* C23 as stated: the treasury transaction holds one transfer per accepted
\* lineage share and one for developerAmount, none for the platform, the
\* transfers sum to totalLamports - platformAmount, and the treasury is fee
\* payer and only signer.
C23_TransferPerShareAndDeveloper ==
    TreasuryBuilt =>
        /\ Len(transaction.instructions) = Len(distribution.lineageRoyalties) + 1
        /\ SumLamports(transaction.instructions)
              = totalLamports - distribution.platformAmount
        /\ transaction.feePayer = TreasuryKey
        /\ transaction.signers = <<TreasuryKey>>

\* C23 (amended): the treasury transaction holds, paid from the treasury,
\* one transfer per lineage share larger than 0 in root-first order and then
\* one for developerAmount when it is larger than 0, and none for
\* platformAmount; the transfers sum to totalLamports - platformAmount; the
\* treasury is fee payer and only signer and a recent blockhash is attached.
C23_TreasuryLayout ==
    TreasuryBuilt =>
        LET ins == transaction.instructions
            paid == PaidEntries(distribution.lineageRoyalties)
            d == IF distribution.developerAmount > 0 THEN 1 ELSE 0
        IN  /\ Len(ins) = Len(paid) + d
            /\ \A k \in 1..Len(ins) :
                  /\ ins[k].kind = "transfer"
                  /\ ins[k].fromPubkey = TreasuryKey
                  /\ ins[k].toPubkey # PlatformFeeWallet
            /\ \A k \in 1..Len(paid) :
                  /\ ins[k].toPubkey = paid[k].developerWallet
                  /\ ins[k].lamports = paid[k].amount
            /\ d = 1 =>
                  /\ ins[Len(ins)].toPubkey = ModelDeveloperWallet
                  /\ ins[Len(ins)].lamports = distribution.developerAmount
            /\ SumLamports(ins) = totalLamports - distribution.platformAmount
            /\ transaction.feePayer = TreasuryKey
            /\ transaction.signers = <<TreasuryKey>>
            /\ transaction.recentBlockhash

\* the platform keeps everything that is left: two shares, no developer
\* transfer
C23_Witness ==
    /\ TreasuryBuilt
    /\ distribution.platformAmount > 0
    /\ distribution.developerAmount = 0
    /\ Len(distribution.lineageRoyalties) = 2
    /\ Len(transaction.instructions) = 2

\* C25: a built transaction holds lineage or developer transfers only when
\* the trace they were computed from is valid.
C25_TransfersOnlyFromValidTrace ==
    (/\ SubscriptionBuilt \/ TreasuryBuilt
     /\ \E k \in 1..Len(transaction.instructions) :
           /\ transaction.instructions[k].kind = "transfer"
           /\ transaction.instructions[k].toPubkey # PlatformFeeWallet) =>
        lineageTrace.isValid

(***************************************************************************)
(* Properties of the codec (SpecCodec).                                    *)
(***************************************************************************)
Decoded(kind) == pcCodec = "done" /\ bufKind = kind

\* no unpaired surrogate: every high surrogate is followed by a low one and
\* every low one preceded by a high one
WellFormedString(str) ==
    \A k \in 1..Len(str) :
        /\ IsHighSurrogate(str[k]) => k < Len(str) /\ IsLowSurrogate(str[k + 1])
        /\ IsLowSurrogate(str[k]) => k > 1 /\ IsHighSurrogate(str[k - 1])

\* C17: a well-formed account buffer decodes to a record holding the stored
\* creator, model name and lineage depth, with a parent address exactly
\* when the option tag is 1.
C17_WellFormedDecodes ==
    Decoded("account") =>
        /\ decodeResult # NoValue
        /\ decodeResult.developerWallet = PubkeyBytes(codecInput.creator)
        /\ decodeResult.modelName = Utf8ToString(Utf8Bytes(codecInput.modelName))
        /\ WellFormedString(codecInput.modelName) =>
              decodeResult.modelName = codecInput.modelName
        /\ decodeResult.depth = codecInput.lineageDepth
        /\ IF codecInput.parent # NoParent
           THEN decodeResult.parentPDA = PubkeyBytes(codecInput.parent)
           ELSE decodeResult.parentPDA = NoKey

\* a two-byte depth, a multi-byte name and no parent
C17_Witness ==
    /\ Decoded("account")
    /\ codecInput.parent = NoParent
    /\ codecInput.lineageDepth = 258
    /\ codecInput.modelName = <<233, 55357>>
    /\ codecInput.cidRoot # <<>>
    /\ decodeResult # NoValue
    /\ decodeResult.modelName = <<233, 65533>>

\* C18: every proper prefix of a well-formed account buffer fails to decode.
C18_EveryProperPrefixFails ==
    Decoded("prefix") => decodeResult = NoValue

\* C19 as stated: the create_model payload of (modelName, metadataJson,
\* cidRoot, no parent) decodes to the same modelName and no parent.
C19_PayloadRoundTrip ==
    (Decoded("payload") /\ codecInput.parent = NoParent) =>
        /\ decodeResult # NoValue
        /\ decodeResult.modelName = codecInput.modelName
        /\ decodeResult.parentPDA = NoKey

\* C19 (amended): for strings without unpaired surrogates, the model account
\* that stores (modelName, metadataJson, cidRoot, no parent) in the
\* encodings of encodeBorshString and encodeBorshOptionPubkey decodes to the
\* same modelName and an absent parentAddress, whatever metadataJson and
\* cidRoot hold.
C19_AccountRoundTrip ==
    (/\ Decoded("account")
     /\ codecInput.parent = NoParent
     /\ WellFormedString(codecInput.modelName)) =>
        /\ decodeResult # NoValue
        /\ decodeResult.modelName = codecInput.modelName
        /\ decodeResult.parentPDA = NoKey

C19_Witness ==
    /\ Decoded("account")
    /\ codecInput.parent = NoParent
    /\ codecInput.modelName = <<55357, 56832>>
    /\ codecInput.metadataJson = <<8364>>
    /\ codecInput.cidRoot = <<97, 233>>
    /\ decodeResult # NoValue
    /\ decodeResult.modelName = <<55357, 56832>>

(***************************************************************************)
(* Properties of POST /process-signature-royalty (SpecRoute).              *)
(***************************************************************************)
\* every check of the handler passes for this request
AllChecksPass ==
    /\ request.schemaOk
    /\ request.pdaOk
    /\ request.txInfo = "ok"
    /\ request.amount # 0
    /\ request.amount >= MIN_SUBSCRIPTION_LAMPORTS
    /\ request.trace.isValid

RECURSIVE RootWithin(_, _)
RootWithin(a, n) ==
    /\ ledger[a].exists
    /\ ledger[a].decodes
    /\ \/ ledger[a].parent = NoParent
       \/ /\ n > 0
          /\ RootWithin(ledger[a].parent, n - 1)

\* C22: on an acyclic chain of fewer than maxDepth links whose accounts are
\* all present and decodable (and fetched without an error), the trace is
\* valid, has no violations, and its lineage holds every model of the chain
\* from the start to the root.
C22_ShortChainIsValid ==
    (ReturnedNormally /\ RootWithin(modelPDA, maxDepth - 1)) =>
        /\ trace.isValid
        /\ trace.violations = <<>>
        /\ {trace.lineage[k].modelPDA : k \in 1..Len(trace.lineage)}
              = ChainAddrs(modelPDA, NumAddr)
        /\ trace.lineage[1].modelPDA = modelPDA
        /\ trace.lineage[Len(trace.lineage)].parentPDA = NoParent

\* the longest chain the cap admits: maxDepth - 1 links, maxDepth models
C22_Witness ==
    /\ ReturnedNormally
    /\ maxDepth = 3
    /\ RootWithin(modelPDA, maxDepth - 1)
    /\ Len(trace.lineage) = 3
    /\ trace.isValid

C26_AtMostOneSendPerSignature ==
    treasurySends <= 1

\* C30: getAccountInfo makes at most maxRetries RPC calls; it returns the
\* account at the first call that finds data, null when the last call finds
\* no account, and throws exactly when the last call throws (errors of
\* earlier calls are swallowed); it waits once between two calls and never
\* after the last one.
C30_RetryLoop ==
    /\ rpcCalls <= maxRetries
    /\ \A k \in 1..Len(waitLog) : waitLog[k] = k /\ k < maxRetries
    /\ pcFetch = "done" =>
        /\ Len(waitLog) = (IF rpcCalls = 0 THEN 0 ELSE rpcCalls - 1)
        /\ \A k \in 1..(rpcCalls - 1) : rpcOutcomes[k] # "data"
        /\ IF rpcCalls >= 1 /\ rpcOutcomes[rpcCalls] = "data"
             THEN fetchResult = [kind |-> "account", foundAt |-> rpcCalls]
             ELSE /\ rpcCalls = maxRetries
                  /\ fetchResult.kind =
                        (IF rpcCalls >= 1 /\ rpcOutcomes[rpcCalls] = "throws"
                           THEN "throws" ELSE "null")

\* three attempts, the first two fail (one throws, one finds nothing) and
\* the error of the last one is rethrown after two waits
C30_Witness ==
    /\ pcFetch = "done"
    /\ maxRetries = 3
    /\ rpcOutcomes[1] = "throws"
    /\ rpcOutcomes[2] = "none"
    /\ fetchResult.kind = "throws"
    /\ waitLog = <<1, 2>>

====
